---- MODULE Spec2Model ----
(***************************************************************************)
(* State-machine model of the taxi ETL pipeline (src/etl_pipeline.py):     *)
(* the analytical store (dimension tables, fact table, indexes, the six    *)
(* aggregate tables and the summary table), the methods of                 *)
(* TaxiETLPipeline, and the orchestrator main().                           *)
(*                                                                         *)
(* Numeric representation.  A DOUBLE column of a batch file is a record    *)
(* [u, eps] standing for u * 2^-17 + eps * 2^-160; a FLOAT (32 bit) column *)
(* of the store is an integer number of units of 2^-17.  Timestamps are    *)
(* ticks of 1/TicksPerSec second since 2025-01-01 00:00:00.                *)
(***************************************************************************)
EXTENDS Integers, Sequences, FiniteSets, Bags, TLC

\* ------------------------------------------------------------------ bounds
\* longest list of batch files found by the glob of load_trip_data
MaxFiles == 2
\* a client of TaxiETLPipeline calls load_trip_data at most this often
MaxLoads == 2
\* ... and create_materialized_views at most this often
MaxBuilds == 2

\* --------------------------------------------------------- program constants
FareUpper == 500
DistanceUpper == 200
PassengerMin == 1
PassengerMax == 6
DurationCap == 7200
OdMinTrips == 100

\* ------------------------------------------------------------ number model
\* ticks per second of a timestamp
TicksPerSec == 4
\* units of a FLOAT or DOUBLE value per 1.0
FixOne == 2 ^ 17
\* pandas NaN in the location_id column of the zone lookup
NullId == -1
Null == "NULL"

Dbl(n) == [u |-> n, eps |-> 0]
\* a positive double below half the smallest float32 subnormal
DblTiny == [u |-> 0, eps |-> 1]
DblLT(a, b) == a.u < b.u \/ (a.u = b.u /\ a.eps < b.eps)

RECURSIVE BitLen(_)
BitLen(n) == IF n = 0 THEN 0 ELSE 1 + BitLen(n \div 2)

Abs(n) == IF n < 0 THEN -n ELSE n

\* round n / d to the nearest integer, ties to even (d > 0, n >= 0)
RoundHalfEven(n, d) ==
    LET q == n \div d
        r == n % d
    IN  IF 2 * r < d THEN q
        ELSE IF 2 * r > d THEN q + 1
        ELSE IF q % 2 = 0 THEN q ELSE q + 1

\* the IEEE float32 nearest to n units: 24 significant bits
RoundF32(n) ==
    LET a == Abs(n)
        ulp == IF BitLen(a) <= 24 THEN 1 ELSE 2 ^ (BitLen(a) - 24)
        m == RoundHalfEven(a, ulp) * ulp
    IN  IF n < 0 THEN -m ELSE m

\* CAST(x AS FLOAT) of a DOUBLE: round to nearest, underflow to 0
CastFloat(d) == RoundF32(d.u)

\* CAST(EXTRACT(EPOCH FROM (dropoff - pickup)) AS INTEGER): the interval's
\* seconds as a DOUBLE, rounded to the nearest integer
CastDurationSeconds(pickup, dropoff) ==
    IF dropoff >= pickup
    THEN RoundHalfEven(dropoff - pickup, TicksPerSec)
    ELSE -RoundHalfEven(pickup - dropoff, TicksPerSec)

TicksPerDay == 86400 * TicksPerSec
TicksPerHour == 3600 * TicksPerSec
\* timestamp of day d (0 = 2025-01-01), h:m:s, plus q ticks
At(d, h, m, s, q) == ((d * 24 + h) * 60 + m) * 60 * TicksPerSec + s * TicksPerSec + q

\* CAST(ts AS DATE), as days since 2025-01-01
DateOf(ts) == ts \div TicksPerDay
\* EXTRACT(HOUR FROM ts)
HourOf(ts) == (ts % TicksPerDay) \div TicksPerHour
DowOfMondayFirst(ts) == (DateOf(ts) + 2) % 7
\* EXTRACT(DOW FROM ts): 0 = Sunday; 2025-01-01 is a Wednesday
DowOf(ts) == (DateOf(ts) + 3) % 7

Range(s) == {s[j] : j \in 1..Len(s)}

\* ------------------------------------------------------------------ inputs
\* rows of data/raw/taxi_zone_lookup.csv, columns already lower-cased
Zone(id, b, z, sz) == [location_id |-> id, borough |-> b, zone |-> z, service_zone |-> sz]

ZonesStd ==
    [present |-> TRUE,
     rows |-> << Zone(1, "EWR", "Newark Airport", "EWR"),
                 Zone(4, "Manhattan", "Alphabet City", "Yellow Zone"),
                 Zone(12, "Manhattan", "Battery Park", Null),
                 Zone(7, "Queens", "Astoria", "Boro Zone"),
                 Zone(264, "Unknown", Null, Null),
                 Zone(265, Null, "Outside of NYC", Null),
                 Zone(NullId, "Manhattan", "Chinatown", "Yellow Zone") >>]
ZonesNoManhattan ==
    [present |-> TRUE,
     rows |-> << Zone(7, "Queens", "Astoria", "Boro Zone"),
                 Zone(1, "EWR", "Newark Airport", "EWR") >>]
ZonesOther ==
    [present |-> TRUE,
     rows |-> << Zone(13, "Manhattan", "Battery Park City", "Yellow Zone") >>]
ZonesDuplicate ==
    [present |-> TRUE,
     rows |-> << Zone(4, "Manhattan", "Alphabet City", "Yellow Zone"),
                 Zone(4, "Manhattan", "Alphabet City", "Yellow Zone") >>]
ZonesMissing == [present |-> FALSE, rows |-> << >>]

ZoneFiles == {ZonesStd, ZonesNoManhattan, ZonesOther, ZonesDuplicate, ZonesMissing}

\* database/schema_duckdb.sql: missing, without a statement, or with a first
\* statement the engine refuses
SchemaAbsent == [present |-> FALSE, statements |-> << >>]
SchemaEmpty == [present |-> TRUE, statements |-> << >>]
SchemaBroken == [present |-> TRUE, statements |-> << [runs |-> FALSE] >>]
SchemaFiles == {SchemaAbsent, SchemaEmpty, SchemaBroken}

\* one record of a yellow_tripdata_2025-*.parquet file
Trip(v, pu, do, pay, t1, t2, pax, dist, fare) ==
    [VendorID |-> v, PULocationID |-> pu, DOLocationID |-> do, payment_type |-> pay,
     tpep_pickup_datetime |-> t1, tpep_dropoff_datetime |-> t2,
     passenger_count |-> pax, trip_distance |-> dist, fare_amount |-> fare,
     RatecodeID |-> 1, airport_fee |-> Dbl(0), tip_amount |-> Dbl(0)]

Dollars(n) == Dbl(n * FixOne)

\* Wednesday 2025-01-01 08:00:00, ten minutes, 2.0 miles, $10
RowA == Trip(1, 4, 12, 1, At(0, 8, 0, 0, 0), At(0, 8, 10, 0, 0), 1, Dollars(2), Dollars(10))
\* Saturday 2025-01-04 23:30:00, twenty minutes, 3.0 miles, $15
RowB == Trip(2, 12, 4, 2, At(3, 23, 30, 0, 0), At(3, 23, 50, 0, 0), 2, Dollars(3), Dollars(15))
\* pickup in Queens
RowOutsidePU == Trip(1, 7, 4, 1, At(1, 9, 0, 0, 0), At(1, 9, 10, 0, 0), 1, Dollars(2), Dollars(10))
\* dropoff at Newark airport
RowOutsideDO == Trip(1, 4, 1, 1, At(1, 9, 0, 0, 0), At(1, 9, 10, 0, 0), 1, Dollars(2), Dollars(10))
RowFareZero == Trip(1, 4, 12, 1, At(0, 8, 0, 0, 0), At(0, 8, 10, 0, 0), 1, Dollars(2), Dollars(0))
RowFareNegative == Trip(1, 4, 12, 1, At(0, 8, 0, 0, 0), At(0, 8, 10, 0, 0), 1, Dollars(2), Dollars(-3))
RowFare500 == Trip(1, 4, 12, 1, At(0, 8, 0, 0, 0), At(0, 8, 10, 0, 0), 1, Dollars(2), Dollars(FareUpper))
RowDistanceZero == Trip(1, 4, 12, 1, At(0, 8, 0, 0, 0), At(0, 8, 10, 0, 0), 1, Dollars(0), Dollars(10))
RowDistance200 == Trip(1, 4, 12, 1, At(0, 8, 0, 0, 0), At(0, 8, 10, 0, 0), 1, Dollars(DistanceUpper), Dollars(10))
RowNoPassenger == Trip(1, 4, 12, 1, At(0, 8, 0, 0, 0), At(0, 8, 10, 0, 0), 0, Dollars(2), Dollars(10))
RowSevenPassengers == Trip(1, 4, 12, 1, At(0, 8, 0, 0, 0), At(0, 8, 10, 0, 0), 7, Dollars(2), Dollars(10))
RowBackwards == Trip(1, 4, 12, 1, At(0, 8, 10, 0, 0), At(0, 8, 10, 0, 0), 1, Dollars(2), Dollars(10))
RowTwoHours == Trip(1, 4, 12, 1, At(0, 8, 0, 0, 0), At(0, 10, 0, 0, 0), 1, Dollars(2), Dollars(10))
\* fare 500 - 2^-17, one unit under the upper bound
RowFareEdge == Trip(2, 4, 4, 1, At(2, 7, 0, 0, 0), At(2, 7, 30, 0, 0), 3, Dollars(2),
                    Dbl(FareUpper * FixOne - 1))
\* 7199.75 seconds, one tick under the cap
RowDurationEdge == Trip(2, 12, 12, 2, At(4, 0, 0, 0, 0), At(4, 1, 59, 59, 3), 6, Dollars(9), Dollars(60))
\* a positive fare too small for a FLOAT; the earliest pickup of the catalogue
RowFareTiny == Trip(1, 4, 12, 1, At(0, 0, 5, 0, 0), At(0, 0, 15, 0, 0), 1, Dollars(1), DblTiny)

BatchFile(ok, rows) == [readable |-> ok, rows |-> rows]

\* OdMinTrips rows, all within the filters
FileValid100 == BatchFile(TRUE, [j \in 1..OdMinTrips |-> RowA])
\* OdMinTrips rows, all with nonpositive fares
FileBadFare100 == BatchFile(TRUE, [j \in 1..OdMinTrips |-> IF j % 2 = 0 THEN RowFareZero ELSE RowFareNegative])
FileMixed == BatchFile(TRUE, << RowB, RowOutsidePU, RowA >>)
FileEdge == BatchFile(TRUE, << RowFareEdge, RowDurationEdge, RowFareTiny >>)
FileRejects == BatchFile(TRUE, << RowOutsideDO, RowFare500, RowDistanceZero, RowDistance200,
                                  RowNoPassenger, RowSevenPassengers, RowBackwards, RowTwoHours >>)
\* two equal trips
FilePair == BatchFile(TRUE, << RowB, RowB >>)
FileEmpty == BatchFile(TRUE, << >>)
\* a file read_parquet cannot read
FileMalformed == BatchFile(FALSE, << >>)

\* $60 over 1.0 mile, paid by card without a tip
RowSteep == Trip(1, 4, 12, 1, At(5, 12, 0, 0, 0), At(5, 12, 5, 0, 0), 1, Dollars(1), Dollars(60))
\* $50 over 1.0 mile
RowFifty == Trip(1, 12, 4, 2, At(5, 13, 0, 0, 0), At(5, 13, 5, 0, 0), 1, Dollars(1), Dollars(50))
\* RowA at the JFK rate code
RowAirport == [RowA EXCEPT !.RatecodeID = 2]
FileSteep == BatchFile(TRUE, << RowSteep, RowSteep, RowFifty >>)
\* ten airport trips from zone 4 to zone 12
FileAirport10 == BatchFile(TRUE, [j \in 1..10 |-> RowAirport])

BatchFiles == {FileValid100, FileBadFare100, FileMixed, FileEdge, FileRejects, FileEmpty, FileMalformed}

\* the batch files of the runs whose store the query API reads
ApiBatchFiles == {FileSteep, FileAirport10, FileMalformed}

\* the sorted result of the glob: any list of at most MaxFiles files
FileLists(fs) == UNION {[1..n -> fs] : n \in 0..MaxFiles}

\* ------------------------------------------------------------------- state
VARIABLES
    driver,                 \* "main": main() runs the stages; "client": a caller of the class does
    schema_dir,             \* the schema files the run may find at schema_path
    zone_dir,               \* the zone lookup files the run may find at ZONE_LOOKUP_PATH
    batch_dir,              \* the batch files the glob may find in DATA_DIR
    index_faults,           \* the sets of CREATE INDEX statements the engine may refuse in a call
    pc,                     \* the method about to run, or "load_batch", "idle", "done", "failed"
    fatal,                  \* the method whose exception left the last call, or "none"
    schema,                 \* the dimension tables and fact_trip exist
    dim_location, dim_vendor, dim_payment_type, dim_rate_code,
    fact_trip,
    indexes,
    mv,                     \* the six aggregate tables
    summary_statistics,
    manhattan_zone_ids, parquet_files, i, total_trips_loaded, total_trips_filtered,
    batch_log,              \* what load_trip_data printed for each file of this call
    report,                 \* the totals printed under DATA LOADING COMPLETE
    loads,                  \* calls of load_trip_data so far
    builds,                 \* calls of create_materialized_views that returned
    response,               \* the last request to the query API and its response
    index_log               \* what create_indexes printed for each index it tried

store == <<schema, dim_location, dim_vendor, dim_payment_type, dim_rate_code,
           fact_trip, indexes, mv, summary_statistics>>
locals == <<manhattan_zone_ids, parquet_files, i, total_trips_loaded, total_trips_filtered,
            batch_log, report>>
env == <<driver, schema_dir, zone_dir, batch_dir, index_faults>>
vars == <<env, pc, fatal, store, locals, loads, builds, response, index_log>>

\* ------------------------------------------------------------------ tables
MvNames == {"mv_zone_pickup", "mv_zone_dropoff", "mv_hourly_demand", "mv_od_flows",
            "mv_vendor_performance", "mv_payment_patterns"}
IndexNames == {"idx_pickup_datetime_btree", "idx_pu_location", "idx_do_location",
               "idx_od_pair_covering", "idx_vendor_analysis", "idx_payment_tipping",
               "idx_zone_temporal"}
NoTable == [exists |-> FALSE, rows |-> EmptyBag]
Table(rows) == [exists |-> TRUE, rows |-> SetToBag(rows)]

VendorIds == {1, 2, 6, 7}
PaymentTypeIds == {0, 1, 2, 3, 4, 5}
RateCodeIds == {1, 2, 3, 4, 5, 6, 99}

NoReport == [made |-> FALSE, loaded |-> 0, filtered |-> 0]

\* ------------------------------------------------------------ orchestration
MainOrderFactsFirst ==
    << "create_schema", "load_trip_data", "load_dimensions", "create_indexes",
       "create_materialized_views", "create_summary_statistics",
       "analyze_database", "print_statistics", "close" >>
\* the calls of main(), lines 598-627
MainOrder == << "create_schema", "load_dimensions", "load_trip_data", "create_indexes",
                "create_materialized_views", "create_summary_statistics",
                "analyze_database", "print_statistics", "close" >>
Methods == Range(MainOrder)

\* m is called now: by main() in its turn, or by a caller of the class that
\* holds the pipeline object and is between two calls
Called(m) ==
    \/ pc = m
    \/ /\ driver = "client"
       /\ pc = "idle"
       /\ m = "load_trip_data" => loads < MaxLoads
       /\ m = "create_materialized_views" => builds < MaxBuilds

\* the method main() calls after m
MainSucc(m) == LET k == CHOOSE j \in 1..Len(MainOrder) : MainOrder[j] = m
               IN  IF k < Len(MainOrder) THEN MainOrder[k + 1] ELSE "done"

\* m returned
Return(m) ==
    /\ fatal' = "none"
    /\ pc' = IF m = "close" THEN "done"
             ELSE IF driver = "main" THEN MainSucc(m) ELSE "idle"

RaiseAndGoOn(m) ==
    /\ fatal' = m
    /\ pc' = IF driver = "main" THEN MainSucc(m) ELSE "idle"
\* m raised: main() prints ETL PIPELINE FAILED and exits with status 1; a
\* caller of the class gets the exception
Raise(m) ==
    /\ fatal' = m
    /\ pc' = IF driver = "main" THEN "failed" ELSE "idle"

\* ------------------------------------------------------------------ schema
\* create_schema.  With no database/schema_duckdb.sql: _create_basic_schema,
\* five CREATE TABLE IF NOT EXISTS statements.  With the file: its statements
\* one by one, the first that fails being raised again.
CreateSchemaReplacing ==
    /\ Called("create_schema")
    /\ schema' = TRUE
    /\ dim_location' = {} /\ dim_vendor' = {} /\ dim_payment_type' = {} /\ dim_rate_code' = {}
    /\ fact_trip' = {}
    /\ UNCHANGED <<indexes, mv, summary_statistics>>
    /\ UNCHANGED <<env, response, index_log, locals, loads, builds>>
    /\ Return("create_schema")

CreateSchema ==
    /\ Called("create_schema")
    /\ \E sf \in schema_dir :
        IF ~sf.present
        THEN schema' = TRUE /\ Return("create_schema")
        ELSE IF \E j \in DOMAIN sf.statements : ~sf.statements[j].runs
        THEN UNCHANGED schema /\ Raise("create_schema")
        ELSE UNCHANGED schema /\ Return("create_schema")
    /\ UNCHANGED <<dim_location, dim_vendor, dim_payment_type, dim_rate_code,
                   fact_trip, indexes, mv, summary_statistics>>
    /\ UNCHANGED <<env, response, index_log, locals, loads, builds>>

\* -------------------------------------------------------------- dimensions
\* zones_df.dropna(subset=['location_id', 'borough', 'zone'])
DropNa(rows) ==
    {z \in Range(rows) : z.location_id # NullId /\ z.borough # Null /\ z.zone # Null}
\* rows of the file, counted with their repetitions, that dropna keeps
KeptCount(rows) ==
    Cardinality({j \in 1..Len(rows) :
        rows[j].location_id # NullId /\ rows[j].borough # Null /\ rows[j].zone # Null})
FillNaSkipped(z) == z
\* zones_df['service_zone'].fillna('Unknown')
FillNa(z) == IF z.service_zone = Null THEN [z EXCEPT !.service_zone = "Unknown"] ELSE z
ZonesDf(rows) == {FillNa(z) : z \in DropNa(rows)}

\* INSERT INTO dim_location violates the primary key
LocationKeyClash(rows) ==
    \/ KeptCount(rows) # Cardinality({z.location_id : z \in ZonesDf(rows)})
    \/ \E z \in ZonesDf(rows) : \E d \in dim_location : d.location_id = z.location_id

LoadDimensions ==
    /\ Called("load_dimensions")
    /\ \E zf \in zone_dir :
        IF ~zf.present \/ ~schema \/ LocationKeyClash(zf.rows)
        THEN \* read_csv, or the first INSERT, raises: nothing is written
             /\ UNCHANGED <<dim_location, dim_vendor, dim_payment_type, dim_rate_code>>
             /\ Raise("load_dimensions")
        ELSE /\ dim_location' = dim_location \cup ZonesDf(zf.rows)
             /\ IF dim_vendor # {}
                THEN \* INSERT INTO dim_vendor violates the primary key
                     /\ UNCHANGED <<dim_vendor, dim_payment_type, dim_rate_code>>
                     /\ Raise("load_dimensions")
                ELSE /\ dim_vendor' = VendorIds
                     /\ IF dim_payment_type # {}
                        THEN /\ UNCHANGED <<dim_payment_type, dim_rate_code>>
                             /\ Raise("load_dimensions")
                        ELSE /\ dim_payment_type' = PaymentTypeIds
                             /\ IF dim_rate_code # {}
                                THEN /\ UNCHANGED dim_rate_code
                                     /\ Raise("load_dimensions")
                                ELSE /\ dim_rate_code' = RateCodeIds
                                     /\ Return("load_dimensions")
    /\ UNCHANGED <<schema, fact_trip, indexes, mv, summary_statistics>>
    /\ UNCHANGED <<env, response, index_log, locals, loads, builds>>

\* -------------------------------------------------------------- fact loader
\* SELECT location_id FROM dim_location WHERE borough = 'Manhattan'
ManhattanZones == {z.location_id : z \in {d \in dim_location : d.borough = "Manhattan"}}

\* the WHERE clause of the INSERT, on the columns of the file
GeoOkPickupOnly(r, ids) == r.PULocationID \in ids
GeoOk(r, ids) == r.PULocationID \in ids /\ r.DOLocationID \in ids
FareOk(r) == DblLT(Dbl(0), r.fare_amount) /\ DblLT(r.fare_amount, Dollars(FareUpper))
DistanceOk(r) == DblLT(Dbl(0), r.trip_distance) /\ DblLT(r.trip_distance, Dollars(DistanceUpper))
PassengerOk(r) == r.passenger_count >= PassengerMin /\ r.passenger_count <= PassengerMax
TimeOk(r) == r.tpep_pickup_datetime < r.tpep_dropoff_datetime
DurationOk(r) ==
    r.tpep_dropoff_datetime - r.tpep_pickup_datetime < DurationCap * TicksPerSec
Accepted(r, ids) ==
    GeoOk(r, ids) /\ FareOk(r) /\ DistanceOk(r) /\ PassengerOk(r) /\ TimeOk(r) /\ DurationOk(r)

\* the rows of a file that pass the WHERE clause, in file order
AcceptedRows(rows, ids) == SelectSeq(rows, LAMBDA r : Accepted(r, ids))

TripIdNoOffset(rownum, loaded) == rownum
TripIdFromZero(rownum, loaded) == rownum - 1 + loaded
\* ROW_NUMBER() OVER () + total_trips_loaded
TripId(rownum, loaded) == rownum + loaded

\* the SELECT list of the INSERT
FactRow(r, id) ==
    [trip_id |-> id,
     vendor_id |-> r.VendorID,
     pu_location_id |-> r.PULocationID,
     do_location_id |-> r.DOLocationID,
     payment_type_id |-> r.payment_type,
     pickup_datetime |-> r.tpep_pickup_datetime,
     dropoff_datetime |-> r.tpep_dropoff_datetime,
     pickup_date |-> DateOf(r.tpep_pickup_datetime),
     pickup_hour |-> HourOf(r.tpep_pickup_datetime),
     pickup_day_of_week |-> DowOf(r.tpep_pickup_datetime),
     is_weekend |-> DowOf(r.tpep_pickup_datetime) \in {0, 6},
     passenger_count |-> r.passenger_count,
     trip_distance |-> CastFloat(r.trip_distance),
     trip_duration_seconds |-> CastDurationSeconds(r.tpep_pickup_datetime, r.tpep_dropoff_datetime),
     fare_amount |-> CastFloat(r.fare_amount),
     rate_code_id |-> r.RatecodeID,
     airport_fee |-> CastFloat(r.airport_fee),
     tip_amount |-> CastFloat(r.tip_amount)]

\* ROW_NUMBER() OVER () has no ORDER BY and the connection runs with
\* preserve_insertion_order=false: the accepted rows are numbered 1..k in an
\* order the engine chooses.  Each g is one numbering.
Numberings(acc) ==
    {g \in [1..Len(acc) -> Range(acc)] :
        \A v \in Range(acc) :
            Cardinality({j \in 1..Len(acc) : g[j] = v})
                = Cardinality({j \in 1..Len(acc) : acc[j] = v})}

NewRows(g, loaded) == {FactRow(g[j], TripId(j, loaded)) : j \in DOMAIN g}

InsertReplacing(F, rows) == rows
\* INSERT INTO fact_trip SELECT ...: the table F with the selected rows added
InsertInto(F, rows) == F \cup rows

\* the INSERT violates the primary key of fact_trip
TripKeyClash(k, loaded) ==
    \E j \in 1..k : \E t \in fact_trip : t.trip_id = TripId(j, loaded)

\* trips_added = current_count - total_trips_loaded
TripsAdded(current_count, loaded) == current_count - loaded
RunningTotalAccumulate(loaded, current_count) == loaded + current_count
\* total_trips_loaded = current_count
RunningTotal(loaded, current_count) == current_count
AfterErrorBreak(idx, n) == n + 1
\* except ...: continue -- the loop goes on with the file after idx of n
AfterError(idx, n) == idx + 1

LogEntry(st, err, added, filtered) ==
    [status |-> st, error |-> err, added |-> added, filtered |-> filtered]

\* lines 241-258: read the Manhattan zone ids, glob the batch files
LoadTripDataBegin ==
    /\ Called("load_trip_data")
    /\ loads' = loads + 1
    /\ batch_log' = << >>
    /\ report' = NoReport
    /\ total_trips_loaded' = 0
    /\ total_trips_filtered' = 0
    /\ i' = 1
    /\ IF ~schema
       THEN \* dim_location does not exist
            /\ manhattan_zone_ids' = {}
            /\ parquet_files' = << >>
            /\ Raise("load_trip_data")
       ELSE \E fs \in FileLists(batch_dir) :
                IF fs = << >>
                THEN \* ERROR: No parquet files found; return
                     /\ manhattan_zone_ids' = {}
                     /\ parquet_files' = << >>
                     /\ Return("load_trip_data")
                ELSE /\ manhattan_zone_ids' = ManhattanZones
                     /\ parquet_files' = fs
                     /\ pc' = "load_batch"
                     /\ fatal' = "none"
    /\ UNCHANGED <<env, response, index_log, store, builds>>

\* one pass of the loop over parquet_files, lines 261-351
LoadBatch ==
    /\ pc = "load_batch"
    /\ i <= Len(parquet_files)
    /\ LET f == parquet_files[i]
           acc == AcceptedRows(f.rows, manhattan_zone_ids)
           failure == IF manhattan_zone_ids = {} THEN "parser"
                      ELSE IF ~f.readable THEN "io"
                      ELSE IF TripKeyClash(Len(acc), total_trips_loaded) THEN "constraint"
                      ELSE "none"
       IN  IF failure # "none"
           THEN \* the INSERT raised: except, continue
                /\ batch_log' = Append(batch_log, LogEntry("error", failure, 0, 0))
                /\ i' = AfterError(i, Len(parquet_files))
                /\ UNCHANGED <<fact_trip, total_trips_loaded, total_trips_filtered>>
           ELSE \E g \in Numberings(acc) :
                LET current_count == Cardinality(InsertInto(fact_trip, NewRows(g, total_trips_loaded)))
                    trips_added == TripsAdded(current_count, total_trips_loaded)
                    original_count == Len(f.rows)
                    trips_filtered == original_count - trips_added
                IN  /\ fact_trip' = InsertInto(fact_trip, NewRows(g, total_trips_loaded))
                    /\ i' = i + 1
                    /\ total_trips_loaded' = RunningTotal(total_trips_loaded, current_count)
                    /\ total_trips_filtered' = total_trips_filtered + trips_filtered
                    /\ batch_log' = Append(batch_log,
                          IF original_count = 0
                          THEN \* trips_filtered*100/original_count raises
                               LogEntry("error", "zero_division", trips_added, trips_filtered)
                          ELSE LogEntry("ok", "none", trips_added, trips_filtered))
    /\ pc' = "load_batch"
    /\ UNCHANGED <<fatal, env, response, index_log, loads, builds, manhattan_zone_ids, parquet_files, report>>
    /\ UNCHANGED <<schema, dim_location, dim_vendor, dim_payment_type, dim_rate_code,
                   indexes, mv, summary_statistics>>

\* the locals of load_trip_data are gone when it returns or raises
LocalsGone ==
    /\ manhattan_zone_ids' = {}
    /\ parquet_files' = << >>
    /\ i' = 1
    /\ total_trips_loaded' = 0
    /\ total_trips_filtered' = 0
    /\ batch_log' = << >>

\* after the loop, lines 353-356
LoadTripDataEnd ==
    /\ pc = "load_batch"
    /\ i > Len(parquet_files)
    /\ report' = [made |-> TRUE, loaded |-> total_trips_loaded, filtered |-> total_trips_filtered]
    /\ IF total_trips_loaded + total_trips_filtered = 0
       THEN \* total_trips_filtered*100/(total_trips_loaded+total_trips_filtered) raises
            Raise("load_trip_data")
       ELSE Return("load_trip_data")
    /\ LocalsGone
    /\ UNCHANGED <<env, response, index_log, store, loads, builds>>

\* ----------------------------------------------------------------- indexes
\* the list of create_indexes, in its order
IndexList == << "idx_pickup_datetime_btree", "idx_pu_location", "idx_do_location",
                "idx_od_pair_covering", "idx_vendor_analysis", "idx_payment_tipping",
                "idx_zone_temporal" >>
\* sets of CREATE INDEX statements the engine refuses in one call: none, one
\* in the middle, the first and the last
IndexFailures == { {}, {"idx_od_pair_covering"}, {"idx_pickup_datetime_btree", "idx_zone_temporal"} }

IndexesAttemptedUntilError(bad) ==
    IF \E j \in DOMAIN IndexList : IndexList[j] \in bad
    THEN SubSeq(IndexList, 1, CHOOSE j \in DOMAIN IndexList :
                    /\ IndexList[j] \in bad
                    /\ \A k \in 1..(j - 1) : IndexList[k] \notin bad)
    ELSE IndexList
\* for ... try ... except Exception: the loop goes over the whole list,
\* whichever statements raise
IndexesAttempted(bad) == IndexList

\* seven CREATE INDEX IF NOT EXISTS statements, each in its own try
CreateIndexes ==
    /\ Called("create_indexes")
    /\ \E refused \in index_faults :
        LET bad == IF schema THEN refused ELSE IndexNames
            tried == IndexesAttempted(bad)
        IN  /\ index_log' = [j \in DOMAIN tried |->
                                [name |-> tried[j], created |-> tried[j] \notin bad]]
            /\ indexes' = indexes \cup {tried[j] : j \in {k \in DOMAIN tried : tried[k] \notin bad}}
    /\ UNCHANGED <<schema, dim_location, dim_vendor, dim_payment_type, dim_rate_code,
                   fact_trip, mv, summary_statistics>>
    /\ UNCHANGED <<env, response, locals, loads, builds>>
    /\ Return("create_indexes")

\* -------------------------------------------------------------- aggregates
\* the WHERE clauses of the aggregates, on the columns of fact_trip
FarePositive(t) == t.fare_amount > 0
FareInRange(t) == t.fare_amount > 0 /\ t.fare_amount < FareUpper * FixOne
FareDistanceInRange(t) == FareInRange(t) /\ t.trip_distance > 0

\* each aggregate row carries its group key and COUNT(*); the averages and
\* percentiles of the same group are functions of the same rows
ZonePickup(F) ==
    LET S == {t \in F : FareDistanceInRange(t)}
    IN  {[location_id |-> z, pickup_count |-> Cardinality({t \in S : t.pu_location_id = z})]
            : z \in {t.pu_location_id : t \in S}}
ZoneDropoff(F) ==
    LET S == {t \in F : FareDistanceInRange(t)}
    IN  {[location_id |-> z, dropoff_count |-> Cardinality({t \in S : t.do_location_id = z})]
            : z \in {t.do_location_id : t \in S}}
HourlyDemand(F) ==
    LET S == {t \in F : FarePositive(t)}
        K(t) == <<t.pickup_date, t.pickup_hour, t.pickup_day_of_week, t.is_weekend>>
    IN  {[pickup_date |-> k[1], pickup_hour |-> k[2], pickup_day_of_week |-> k[3],
          is_weekend |-> k[4], trip_count |-> Cardinality({t \in S : K(t) = k})]
            : k \in {K(t) : t \in S}}
OdHavingNone(n) == TRUE
\* HAVING COUNT(*) >= 100
OdHaving(n) == n >= OdMinTrips
OdFlows(F) ==
    LET S == {t \in F : FareDistanceInRange(t)}
        K(t) == <<t.pu_location_id, t.do_location_id>>
        N(k) == Cardinality({t \in S : K(t) = k})
    IN  {[pu_location_id |-> k[1], do_location_id |-> k[2], trip_count |-> N(k)]
            : k \in {kk \in {K(t) : t \in S} : OdHaving(N(kk))}}
VendorPerformance(F) ==
    LET S == {t \in F : FarePositive(t)}
    IN  {[vendor_id |-> v, trip_count |-> Cardinality({t \in S : t.vendor_id = v})]
            : v \in {t.vendor_id : t \in S}}
PaymentPatterns(F) ==
    LET S == {t \in F : FareInRange(t)}
        K(t) == <<t.payment_type_id, t.pickup_hour, t.is_weekend>>
    IN  {[payment_type_id |-> k[1], pickup_hour |-> k[2], is_weekend |-> k[3],
          trip_count |-> Cardinality({t \in S : K(t) = k})]
            : k \in {K(t) : t \in S}}

Rollup(n, F) ==
    CASE n = "mv_zone_pickup" -> ZonePickup(F)
      [] n = "mv_zone_dropoff" -> ZoneDropoff(F)
      [] n = "mv_hourly_demand" -> HourlyDemand(F)
      [] n = "mv_od_flows" -> OdFlows(F)
      [] n = "mv_vendor_performance" -> VendorPerformance(F)
      [] n = "mv_payment_patterns" -> PaymentPatterns(F)

CreateTableAppend(old, rows) == [exists |-> TRUE, rows |-> old.rows (+) SetToBag(rows)]
\* CREATE TABLE IF NOT EXISTS name AS SELECT ...: old is the table as it is
CreateTableIfNotExistsAs(old, rows) == IF old.exists THEN old ELSE Table(rows)

\* the six statements of create_materialized_views, in their order
MvOrder == << "mv_zone_pickup", "mv_zone_dropoff", "mv_hourly_demand", "mv_od_flows",
              "mv_vendor_performance", "mv_payment_patterns" >>
BuildOneAfterPickup(tables, n, F) ==
    [tables EXCEPT ![n] =
        CreateTableIfNotExistsAs(tables[n],
            IF n = "mv_zone_dropoff" /\ ~tables["mv_zone_pickup"].exists
            THEN {} ELSE Rollup(n, F))]
\* one statement: CREATE TABLE IF NOT EXISTS n AS SELECT ... FROM fact_trip
BuildOne(tables, n, F) ==
    [tables EXCEPT ![n] = CreateTableIfNotExistsAs(tables[n], Rollup(n, F))]
\* the statements of order, one after the other
RECURSIVE BuildInOrder(_, _, _)
BuildInOrder(order, tables, F) ==
    IF order = << >> THEN tables
    ELSE BuildInOrder(Tail(order), BuildOne(tables, Head(order), F), F)

CreateMaterializedViews ==
    /\ Called("create_materialized_views")
    /\ IF ~schema
       THEN \* fact_trip does not exist
            /\ UNCHANGED <<mv, builds>>
            /\ Raise("create_materialized_views")
       ELSE /\ mv' = BuildInOrder(MvOrder, mv, fact_trip)
            /\ builds' = builds + 1
            /\ Return("create_materialized_views")
    /\ UNCHANGED <<schema, dim_location, dim_vendor, dim_payment_type, dim_rate_code,
                   fact_trip, indexes, summary_statistics>>
    /\ UNCHANGED <<env, response, index_log, locals, loads>>

\* ----------------------------------------------------------------- summary
NullTs == NullId
MinOf(S) == IF S = {} THEN NullTs ELSE CHOOSE x \in S : \A y \in S : x <= y
MaxOf(S) == IF S = {} THEN NullTs ELSE CHOOSE x \in S : \A y \in S : x >= y

\* the SELECT of summary_statistics: COUNT, MIN and MAX over fare_amount > 0;
\* SUM(total_amount), like the other sums and averages, is NULL over no rows
SummaryRow(F) ==
    LET S == {t \in F : FarePositive(t)}
    IN  [metric_type |-> "overall",
         total_trips |-> Cardinality(S),
         total_revenue_null |-> (S = {}),
         first_trip_date |-> MinOf({t.pickup_datetime : t \in S}),
         last_trip_date |-> MaxOf({t.pickup_datetime : t \in S})]

\* SELECT * FROM summary_statistics ... fetchone()
Stats(tbl) == CHOOSE r \in BagToSet(tbl.rows) : TRUE

CreateSummaryStatisticsDropsAggregates ==
    /\ Called("create_summary_statistics")
    /\ IF ~schema \/ SummaryRow(fact_trip).total_revenue_null
       THEN /\ mv' = [n \in MvNames |-> NoTable]
            /\ UNCHANGED summary_statistics
            /\ Raise("create_summary_statistics")
       ELSE /\ summary_statistics' =
                   CreateTableIfNotExistsAs(summary_statistics, {SummaryRow(fact_trip)})
            /\ UNCHANGED mv
            /\ Return("create_summary_statistics")
    /\ UNCHANGED <<schema, dim_location, dim_vendor, dim_payment_type, dim_rate_code,
                   fact_trip, indexes>>
    /\ UNCHANGED <<env, response, index_log, locals, loads, builds>>

\* create_summary_statistics, lines 513-540
CreateSummaryStatistics ==
    /\ Called("create_summary_statistics")
    /\ IF ~schema
       THEN /\ UNCHANGED summary_statistics
            /\ Raise("create_summary_statistics")
       ELSE /\ summary_statistics' =
                   CreateTableIfNotExistsAs(summary_statistics, {SummaryRow(fact_trip)})
            /\ IF Stats(summary_statistics').total_revenue_null
               THEN \* f"{stats[4]:,.2f}" with stats[4] None raises TypeError
                    Raise("create_summary_statistics")
               ELSE Return("create_summary_statistics")
    /\ UNCHANGED <<schema, dim_location, dim_vendor, dim_payment_type, dim_rate_code,
                   fact_trip, indexes, mv>>
    /\ UNCHANGED <<env, response, index_log, locals, loads, builds>>

\* ---------------------------------------------------- analyze, print, close
AnalyzeDatabase ==
    /\ Called("analyze_database")
    /\ UNCHANGED <<env, response, index_log, store, locals, loads, builds>>
    /\ Return("analyze_database")

\* the table counts are each in a try; the data-quality query is not, and
\* formats AVG(fare_amount), which is None over an empty fact table
PrintStatistics ==
    /\ Called("print_statistics")
    /\ UNCHANGED <<env, response, index_log, store, locals, loads, builds>>
    /\ IF ~schema \/ fact_trip = {}
       THEN Raise("print_statistics")
       ELSE Return("print_statistics")

Close ==
    /\ Called("close")
    /\ UNCHANGED <<env, response, index_log, store, locals, loads, builds>>
    /\ Return("close")

\* the process has ended; the store file stays, and the pipeline is started
\* again on it
Invoke ==
    /\ pc \in {"done", "failed"}
    /\ fatal' = "none"
    /\ pc' = IF driver = "main" THEN "create_schema" ELSE "idle"
    /\ manhattan_zone_ids' = {}
    /\ parquet_files' = << >>
    /\ i' = 1
    /\ total_trips_loaded' = 0
    /\ total_trips_filtered' = 0
    /\ batch_log' = << >>
    /\ report' = NoReport
    /\ index_log' = << >>
    /\ UNCHANGED <<env, response, store, loads, builds>>

\* --------------------------------------------------------------- query API
\* src/backend/main.py: each request is handled to its end before the next
LimitMin == 1
LimitMax == 1000
AirportRateCodes == {2, 3}
AirportMinTrips == 10
FarePerMileMin == 50
HighFareCap == 1000
HighFareDistanceCap == 100
ExpensiveFare == 50

LimitEndpoints == {"get_top_pickup_zones", "get_top_dropoff_zones", "get_top_airport_origins",
                   "get_top_routes", "get_high_fare_per_mile"}
Endpoints == LimitEndpoints \cup {"get_anomaly_summary"}

\* the limit of the query string: none, the text of an integer, other text
NoLimit == [kind |-> "absent", value |-> 0]
IntLimit(n) == [kind |-> "int", value |-> n]
TextLimit == [kind |-> "text", value |-> 0]
RawLimits == {NoLimit, TextLimit} \cup {IntLimit(n) : n \in {0, 1, 1000, 1001}}

\* the default of the handler's signature
DefaultLimit(e) ==
    CASE e = "get_top_routes" -> 50
      [] e = "get_high_fare_per_mile" -> 100
      [] OTHER -> 20

\* limit: int -- the framework hands the handler an int or answers 422
Parses(raw) == raw.kind # "text"
ParsedLimit(e, raw) == IF raw.kind = "absent" THEN DefaultLimit(e) ELSE raw.value

LimitOkNoLower(limit) == limit <= LimitMax
\* isinstance(limit, int) and 1 <= limit <= 1000
LimitOk(limit) == LimitMin <= limit /\ limit <= LimitMax

\* duckdb.connect(read_only=True) succeeds when no pipeline process holds the store
CanConnect == pc \in {"done", "failed"}

\* n / d rounded to the nearest integer, halves up (n >= 0, d > 0)
RoundHalfUp(n, d) == (2 * n + d) \div (2 * d)
\* ROUND(x, 2) of x >= 0 units, in hundredths
Hundredths(x) == (x \div FixOne) * 100 + RoundHalfUp((x % FixOne) * 100, FixOne)
\* binary digits of a unit: FixOne = 2 ^ FixBits
FixBits == 17
\* long division: bits more binary digits of the quotient q, remainder r, of a division by d
RECURSIVE LongDiv(_, _, _, _)
LongDiv(q, r, d, bits) ==
    IF bits = 0 THEN << q, r >>
    ELSE IF 2 * r >= d THEN LongDiv(2 * q + 1, 2 * r - d, d, bits - 1)
    ELSE LongDiv(2 * q, 2 * r, d, bits - 1)
\* n / d in units, rounded to nearest, ties to even (n >= 0, d > 0)
Quotient(n, d) ==
    LET qr == LongDiv(n \div d, n % d, d, FixBits)
    IN  IF 2 * qr[2] < d THEN qr[1]
        ELSE IF 2 * qr[2] > d THEN qr[1] + 1
        ELSE IF qr[1] % 2 = 0 THEN qr[1] ELSE qr[1] + 1
\* fare_amount / trip_distance of two FLOAT columns, in units (trip_distance > 0)
FarePerMile(t) == RoundF32(Quotient(t.fare_amount, t.trip_distance))

\* payment types with allows_tip = TRUE
AllowsTip(id) == id = 1

\* the rows a query selects before ORDER BY and LIMIT; each row carries the
\* key of the row it is computed from and the value it is ordered by
TopPickupRows ==
    {[key |-> <<z.location_id>>, zone |-> l.zone, borough |-> l.borough, ord |-> z.pickup_count]
        : <<z, l>> \in {p \in BagToSet(mv["mv_zone_pickup"].rows) \X dim_location :
                            p[1].location_id = p[2].location_id /\ p[2].borough = "Manhattan"}}
TopDropoffRows ==
    {[key |-> <<z.location_id>>, zone |-> l.zone, borough |-> l.borough, ord |-> z.dropoff_count]
        : <<z, l>> \in {p \in BagToSet(mv["mv_zone_dropoff"].rows) \X dim_location :
                            p[1].location_id = p[2].location_id /\ p[2].borough = "Manhattan"}}
TopAirportOriginRows ==
    LET J == {p \in fact_trip \X dim_location :
                /\ p[1].pu_location_id = p[2].location_id
                /\ p[2].borough = "Manhattan"
                /\ (p[1].rate_code_id \in AirportRateCodes \/ p[1].airport_fee > 0)
                /\ p[1].fare_amount > 0}
        N(zn) == Cardinality({p \in J : p[2].zone = zn})
    IN  {[key |-> <<zn>>, zone |-> zn, borough |-> "Manhattan", ord |-> N(zn)]
            : zn \in {z \in {p[2].zone : p \in J} : N(z) >= AirportMinTrips}}
TopRouteRows ==
    {[key |-> <<q[1].pu_location_id, q[1].do_location_id>>, origin_zone |-> q[2].zone,
      destination_zone |-> q[3].zone, ord |-> q[1].trip_count]
        : q \in {p \in BagToSet(mv["mv_od_flows"].rows) \X dim_location \X dim_location :
                    /\ p[1].pu_location_id = p[2].location_id
                    /\ p[1].do_location_id = p[3].location_id
                    /\ p[2].borough = "Manhattan" /\ p[3].borough = "Manhattan"}}

HighFareDistanceUnder1(t) == t.trip_distance < FixOne
\* t.trip_distance < 100
HighFareDistance(t) == t.trip_distance < HighFareDistanceCap * FixOne
\* the WHERE clause of the high-fare-per-mile listing
HighFareListed(t) ==
    /\ t.trip_distance > 0
    /\ HighFareDistance(t)
    /\ FarePerMile(t) > FarePerMileMin * FixOne
    /\ t.fare_amount < HighFareCap * FixOne
HighFareRows ==
    {[key |-> <<q[1].trip_id>>, pickup_zone |-> q[2].zone, dropoff_zone |-> q[3].zone,
      ord |-> Hundredths(FarePerMile(q[1]))]
        : q \in {p \in {t \in fact_trip : HighFareListed(t)} \X dim_location \X dim_location :
                    /\ p[1].pu_location_id = p[2].location_id
                    /\ p[1].do_location_id = p[3].location_id}}

\* the three counts of the anomaly summary
HighFareCount ==
    Cardinality({t \in fact_trip :
        /\ t.trip_distance > 0
        /\ FarePerMile(t) > FarePerMileMin * FixOne
        /\ t.fare_amount < HighFareCap * FixOne})
NoTipCount ==
    Cardinality({t \in fact_trip :
        /\ t.payment_type_id \in dim_payment_type
        /\ t.fare_amount > ExpensiveFare * FixOne
        /\ t.tip_amount = 0
        /\ AllowsTip(t.payment_type_id)})
NoCounts == [total_trips |-> 0, high_fare_per_mile |-> 0, no_tip_expensive |-> 0]
SummaryCounts ==
    [total_trips |-> Cardinality(fact_trip), high_fare_per_mile |-> HighFareCount,
     no_tip_expensive |-> NoTipCount]

Selected(e) ==
    CASE e = "get_top_pickup_zones" -> TopPickupRows
      [] e = "get_top_dropoff_zones" -> TopDropoffRows
      [] e = "get_top_airport_origins" -> TopAirportOriginRows
      [] e = "get_top_routes" -> TopRouteRows
      [] e = "get_high_fare_per_mile" -> HighFareRows
      [] OTHER -> {}

\* the tables the query of e names exist
QueryBinds(e) ==
    CASE e = "get_top_pickup_zones" -> schema /\ mv["mv_zone_pickup"].exists
      [] e = "get_top_dropoff_zones" -> schema /\ mv["mv_zone_dropoff"].exists
      [] e = "get_top_routes" -> schema /\ mv["mv_od_flows"].exists
      [] OTHER -> schema

\* ORDER BY ord DESC LIMIT k: the results the engine may give, ties in any order
TopK(rows, k) ==
    LET n == IF k < Cardinality(rows) THEN k ELSE Cardinality(rows)
    IN  {S \in SUBSET rows :
            /\ Cardinality(S) = n
            /\ \A a \in S : \A b \in rows \ S : a.ord >= b.ord}

NoResponse ==
    [endpoint |-> "none", raw |-> NoLimit, status |-> 0, connected |-> FALSE,
     limit |-> 0, rows |-> {}, counts |-> NoCounts]
Answer(e, raw, st, con, lim, rows, counts) ==
    [endpoint |-> e, raw |-> raw, status |-> st, connected |-> con,
     limit |-> lim, rows |-> rows, counts |-> counts]

LimitRequestConnectFirst(e, raw) ==
    IF ~Parses(raw)
    THEN response' = Answer(e, raw, 422, FALSE, 0, {}, NoCounts)
    ELSE LET limit == ParsedLimit(e, raw)
         IN  IF ~CanConnect
             THEN response' = Answer(e, raw, 500, FALSE, 0, {}, NoCounts)
             ELSE IF ~LimitOk(limit)
             THEN response' = Answer(e, raw, 400, TRUE, 0, {}, NoCounts)
             ELSE IF ~QueryBinds(e)
             THEN response' = Answer(e, raw, 500, TRUE, limit, {}, NoCounts)
             ELSE \E S \in TopK(Selected(e), limit) :
                    response' = Answer(e, raw, 200, TRUE, limit, S, NoCounts)
\* one of the five handlers that take a limit
LimitRequest(e, raw) ==
    IF ~Parses(raw)
    THEN response' = Answer(e, raw, 422, FALSE, 0, {}, NoCounts)
    ELSE LET limit == ParsedLimit(e, raw)
         IN  IF ~LimitOk(limit)
             THEN response' = Answer(e, raw, 400, FALSE, 0, {}, NoCounts)
             ELSE IF ~CanConnect
             THEN response' = Answer(e, raw, 500, FALSE, 0, {}, NoCounts)
             ELSE IF ~QueryBinds(e)
             THEN response' = Answer(e, raw, 500, TRUE, limit, {}, NoCounts)
             ELSE \E S \in TopK(Selected(e), limit) :
                    response' = Answer(e, raw, 200, TRUE, limit, S, NoCounts)

\* get_anomaly_summary
SummaryRequest ==
    LET e == "get_anomaly_summary"
    IN  IF ~CanConnect
        THEN response' = Answer(e, NoLimit, 500, FALSE, 0, {}, NoCounts)
        ELSE IF ~schema \/ fact_trip = {}
        THEN \* a table is missing, or high_fare * 100.0 / total divides by zero
             response' = Answer(e, NoLimit, 500, TRUE, 0, {}, NoCounts)
        ELSE response' = Answer(e, NoLimit, 200, TRUE, 0, {}, SummaryCounts)

\* the handlers that take no parameter and run one SELECT
PlainEndpoints == {"get_statistics", "get_hourly_demand", "get_day_of_week_demand",
                   "get_temporal_heatmap", "get_fare_breakdown", "get_surcharge_frequency",
                   "get_airport_comparison", "get_vendor_performance", "get_tipping_by_payment"}
\* the tables the SELECT of e names exist
PlainBinds(e) ==
    CASE e = "get_statistics" -> summary_statistics.exists
      [] e \in {"get_hourly_demand", "get_day_of_week_demand", "get_temporal_heatmap"} ->
            mv["mv_hourly_demand"].exists
      [] e = "get_vendor_performance" -> schema /\ mv["mv_vendor_performance"].exists
      [] OTHER -> schema
\* one of the handlers without a parameter; its result rows are not kept
PlainRequest(e) ==
    IF ~CanConnect
    THEN response' = Answer(e, NoLimit, 500, FALSE, 0, {}, NoCounts)
    ELSE IF ~PlainBinds(e)
    THEN response' = Answer(e, NoLimit, 500, TRUE, 0, {}, NoCounts)
    ELSE IF e = "get_statistics" /\ Stats(summary_statistics).total_revenue_null
    THEN \* round(stats[1], 2) with stats[1] None raises TypeError
         response' = Answer(e, NoLimit, 500, TRUE, 0, {}, NoCounts)
    ELSE response' = Answer(e, NoLimit, 200, TRUE, 0, {}, NoCounts)
\* root() returns the list of endpoints and opens no connection
RootRequest == response' = Answer("root", NoLimit, 200, FALSE, 0, {}, NoCounts)

AfterRequestFactsGone(n, t) == IF n = "fact_trip" THEN {} ELSE t
\* the table n, holding t, after a handler has run: the connection is
\* read_only and every statement of every handler is a SELECT
AfterRequest(n, t) == t

ApiRequest ==
    /\ \/ \E e \in LimitEndpoints : \E raw \in RawLimits : LimitRequest(e, raw)
       \/ SummaryRequest
       \/ \E e \in PlainEndpoints : PlainRequest(e)
       \/ RootRequest
    /\ schema' = AfterRequest("schema", schema)
    /\ dim_location' = AfterRequest("dim_location", dim_location)
    /\ dim_vendor' = AfterRequest("dim_vendor", dim_vendor)
    /\ dim_payment_type' = AfterRequest("dim_payment_type", dim_payment_type)
    /\ dim_rate_code' = AfterRequest("dim_rate_code", dim_rate_code)
    /\ fact_trip' = AfterRequest("fact_trip", fact_trip)
    /\ indexes' = AfterRequest("indexes", indexes)
    /\ mv' = AfterRequest("mv", mv)
    /\ summary_statistics' = AfterRequest("summary_statistics", summary_statistics)
    /\ UNCHANGED <<env, pc, fatal, locals, loads, builds, index_log>>

\* ----------------------------------------------------------- specifications
EmptyStore ==
    /\ schema = FALSE
    /\ dim_location = {} /\ dim_vendor = {} /\ dim_payment_type = {} /\ dim_rate_code = {}
    /\ fact_trip = {}
    /\ indexes = {}
    /\ mv = [n \in MvNames |-> NoTable]
    /\ summary_statistics = NoTable

FreshLocals ==
    /\ manhattan_zone_ids = {} /\ parquet_files = << >> /\ i = 1
    /\ total_trips_loaded = 0 /\ total_trips_filtered = 0
    /\ batch_log = << >> /\ report = NoReport
    /\ fatal = "none" /\ loads = 0 /\ builds = 0
    /\ response = NoResponse
    /\ index_log = << >>

\* main() on a store that does not exist yet
Init ==
    /\ driver = "main"
    /\ schema_dir = SchemaFiles
    /\ index_faults = IndexFailures
    /\ zone_dir = ZoneFiles
    /\ batch_dir = BatchFiles
    /\ Called("create_schema")
    /\ EmptyStore /\ FreshLocals

\* a caller constructs TaxiETLPipeline on a store that does not exist yet and
\* calls its methods in any order
InitClient ==
    /\ driver = "client"
    /\ schema_dir = {SchemaAbsent}
    /\ index_faults = {{}}
    /\ zone_dir = {ZonesStd}
    /\ batch_dir = {FilePair, FileRejects}
    /\ pc = "idle"
    /\ EmptyStore /\ FreshLocals

Next ==
    \/ CreateSchema
    \/ LoadDimensions
    \/ LoadTripDataBegin
    \/ LoadBatch
    \/ LoadTripDataEnd
    \/ CreateIndexes
    \/ CreateMaterializedViews
    \/ CreateSummaryStatistics
    \/ AnalyzeDatabase
    \/ PrintStatistics
    \/ Close
    \/ Invoke

\* main() on a store that does not exist yet, with the query API serving
InitApi ==
    /\ driver = "main"
    /\ schema_dir = {SchemaAbsent}
    /\ index_faults = {{}}
    /\ zone_dir = {ZonesStd}
    /\ batch_dir = ApiBatchFiles
    /\ Called("create_schema")
    /\ EmptyStore /\ FreshLocals

NextApi == Next \/ ApiRequest

\* main(), run again and again on the store it leaves, with no schema file
\* (create_schema falls back to _create_basic_schema), the zone lookup in
\* place and an engine that refuses no index
InitBasic ==
    /\ driver = "main"
    /\ schema_dir = {SchemaAbsent}
    /\ index_faults = {{}}
    /\ zone_dir = {ZonesStd}
    /\ batch_dir = {FileMixed, FilePair, FileMalformed}
    /\ Called("create_schema")
    /\ EmptyStore /\ FreshLocals

Spec == Init /\ [][Next]_vars
SpecApi == InitApi /\ [][NextApi]_vars
SpecBasic == InitBasic /\ [][Next]_vars
SpecClient == InitClient /\ [][Next]_vars

\* ------------------------------------------------------------------ claims
\* a batch whose INSERT went through
Inserted(e) == e.error \in {"none", "zero_division"}
\* the loop over parquet_files has ended and the totals are being printed
LoaderEnds == pc = "load_batch" /\ i > Len(parquet_files) /\ report'.made
\* the pass of the loop for file i fails
BatchFails ==
    /\ pc = "load_batch" /\ i <= Len(parquet_files)
    /\ Len(batch_log') = Len(batch_log) + 1
    /\ batch_log'[Len(batch_log')].status = "error"

\* C1: after any sequence of batch loads, failed ones included, every row of
\* the fact table has its pickup and its dropoff location among the
\* location-dimension identifiers whose borough is Manhattan.
C1_GeoFilter ==
    LET ids == ManhattanZones
    IN  \A t \in fact_trip : t.pu_location_id \in ids /\ t.do_location_id \in ids
C1_Witness ==
    /\ fact_trip # {}
    /\ \E j \in DOMAIN batch_log : batch_log[j].status = "error"

\* C2: every fact row has 0 < fare_amount < 500, 0 < trip_distance < 200,
\* 1 <= passenger_count <= 6, pickup_datetime < dropoff_datetime and a
\* stored trip_duration_seconds < 7200.
C2_StoredRowsWithinBounds ==
    \A t \in fact_trip :
        /\ 0 < t.fare_amount /\ t.fare_amount < FareUpper * FixOne
        /\ 0 < t.trip_distance /\ t.trip_distance < DistanceUpper * FixOne
        /\ PassengerMin <= t.passenger_count /\ t.passenger_count <= PassengerMax
        /\ t.pickup_datetime < t.dropoff_datetime
        /\ t.trip_duration_seconds < DurationCap

\* C3: no two fact rows share a trip_id, and the running total added to the
\* row number never yields an identifier already in the fact table (no INSERT
\* of a run is refused by the primary key), whichever batches fail.
C3_TripIdsUnique ==
    /\ Cardinality({t.trip_id : t \in fact_trip}) = Cardinality(fact_trip)
    /\ \A j \in DOMAIN batch_log : batch_log[j].error # "constraint"
C3_Witness ==
    /\ Len(batch_log) = 2
    /\ batch_log[1].added > 0
    /\ batch_log[2].added > 0

\* C4: a batch that fails adds no row to the fact table and leaves the
\* running total as it was, the loop goes on with the next file, and when
\* the loop ends every file has been attempted and every readable, non-empty
\* file has been loaded with its accepted rows.
C4_FailedBatchSkipped ==
    [][ /\ BatchFails =>
            /\ fact_trip' = fact_trip
            /\ total_trips_loaded' = total_trips_loaded
            /\ pc' = "load_batch"
            /\ i' = i + 1
        /\ LoaderEnds =>
            /\ Len(batch_log) = Len(parquet_files)
            /\ \A j \in DOMAIN parquet_files :
                (manhattan_zone_ids # {} /\ parquet_files[j].readable
                    /\ parquet_files[j].rows # << >>)
                => /\ batch_log[j].status = "ok"
                   /\ batch_log[j].added
                        = Len(AcceptedRows(parquet_files[j].rows, manhattan_zone_ids))
      ]_vars
C4_Witness ==
    /\ Len(batch_log) = 2
    /\ batch_log[1].status = "error"
    /\ batch_log[2].status = "ok"
    /\ batch_log[2].added > 0

\* C5: whatever batches fail, all of them or a file with no rows included,
\* load_trip_data returns without a fatal error and main() goes on to the
\* index builder.
C5_LoaderNeverFatal == fatal # "load_trip_data"

\* C6: on a fresh store the total printed at the end of the fact loader is
\* the number of rows, over the batches whose INSERT went through, that pass
\* the acceptance filter, and is the row count of the fact table; with the
\* two batches of 100 valid rows and 100 rows of nonpositive fare it is 100
\* and main() goes on.
RECURSIVE SumAccepted(_)
SumAccepted(j) ==
    IF j = 0 THEN 0
    ELSE SumAccepted(j - 1)
         + (IF Inserted(batch_log[j])
            THEN Len(AcceptedRows(parquet_files[j].rows, manhattan_zone_ids)) ELSE 0)
C6_AcceptedTotal ==
    [][ LoaderEnds =>
            /\ report'.loaded = SumAccepted(Len(parquet_files))
            /\ report'.loaded = Cardinality(fact_trip')
            /\ (/\ parquet_files = << FileValid100, FileBadFare100 >>
                /\ \A j \in DOMAIN FileValid100.rows :
                        Accepted(FileValid100.rows[j], manhattan_zone_ids))
                => /\ report'.loaded = Len(FileValid100.rows)
                   /\ fatal' = "none"
                   /\ pc' = "create_indexes"
      ]_vars
C6_Witness ==
    /\ pc = "create_indexes"
    /\ report.made
    /\ report.loaded = Len(FileValid100.rows)
    /\ report.filtered = Len(FileBadFare100.rows)

\* the six aggregate tables are the rollups of the fact table as it is
AggregatesCurrent == \A n \in MvNames : mv[n] = Table(Rollup(n, fact_trip))

\* C7: a run of create_materialized_views on a store whose six aggregate
\* tables are those of an earlier run over the same fact table leaves the
\* six tables as they are.
C7_RebuildIdempotent == [][ (CreateMaterializedViews /\ AggregatesCurrent) => mv' = mv ]_vars
C7_Witness ==
    /\ builds >= 2
    /\ fact_trip # {}
    /\ AggregatesCurrent

\* C8: after every run of create_materialized_views each aggregate table is
\* the rollup of the fact table as it is then, also when the table exists
\* from an earlier run over another fact table.
C8_AggregatesRecomputed ==
    [][ (CreateMaterializedViews /\ builds' = builds + 1) => AggregatesCurrent' ]_vars

\* C9: every row of mv_od_flows has trip_count >= 100, its trip_count is the
\* number of fact rows of that (pickup, dropoff) pair that pass the fare and
\* distance predicate, and a pair with fewer such rows has no row.
C9_OdFlowsThreshold ==
    mv["mv_od_flows"].exists =>
        LET rows == BagToSet(mv["mv_od_flows"].rows)
            N(p, d) == Cardinality({t \in fact_trip :
                          t.pu_location_id = p /\ t.do_location_id = d
                          /\ t.fare_amount > 0 /\ t.fare_amount < FareUpper * FixOne
                          /\ t.trip_distance > 0})
        IN  /\ \A r \in rows :
                /\ r.trip_count >= OdMinTrips
                /\ r.trip_count = N(r.pu_location_id, r.do_location_id)
                /\ CopiesIn(r, mv["mv_od_flows"].rows) = 1
            /\ \A k \in {<<t.pu_location_id, t.do_location_id>> : t \in fact_trip} :
                N(k[1], k[2]) < OdMinTrips
                => ~\E r \in rows : r.pu_location_id = k[1] /\ r.do_location_id = k[2]
C9_Witness ==
    /\ mv["mv_od_flows"].exists
    /\ BagToSet(mv["mv_od_flows"].rows) # {}
    /\ \E t \in fact_trip : t.pu_location_id = 12 /\ t.do_location_id = 4

\* C10: once the summary builder has run, the summary row's total_trips is
\* the row count of the fact table and its first_trip_date and
\* last_trip_date are the least and the greatest pickup_datetime of the fact
\* table.
C10_SummaryMatchesFacts ==
    summary_statistics.exists =>
        /\ Stats(summary_statistics).total_trips = Cardinality(fact_trip)
        /\ Stats(summary_statistics).first_trip_date
              = MinOf({t.pickup_datetime : t \in fact_trip})
        /\ Stats(summary_statistics).last_trip_date
              = MaxOf({t.pickup_datetime : t \in fact_trip})

\* a request to one of the five endpoints that take a limit is handled
LimitHandled ==
    /\ UNCHANGED <<env, pc, fatal, store, locals, loads, builds, index_log>>
    /\ response'.endpoint \in LimitEndpoints
\* the integer of a query-string limit that is one, the default when absent
Asked(r) == IF r.raw.kind = "absent" THEN DefaultLimit(r.endpoint) ELSE r.raw.value
Least(a, b) == IF a < b THEN a ELSE b

\* C11: at each of the five endpoints that take a limit, an integer outside
\* 1..1000 (0 and 1001 among them) is answered 400 and no other request is;
\* text that is no integer is answered 422; a limit reaches the LIMIT of the
\* query only if it is an integer in 1..1000, and does so whenever the store
\* can be opened; on the store of a completed run such a request (1 and 1000
\* among them) is answered 200 with the first min(limit, n) of the n rows.
C11_LimitValidated ==
    [][ LimitHandled =>
            LET r == response'
                n == Asked(r)
                inRange == r.raw.kind # "text" /\ n \in LimitMin..LimitMax
            IN  /\ r.status = 400 <=> (r.raw.kind = "int" /\ n \notin LimitMin..LimitMax)
                /\ r.status = 422 <=> r.raw.kind = "text"
                /\ r.limit # 0 => inRange /\ r.limit = n
                /\ (inRange /\ CanConnect) => r.limit = n
                /\ (inRange /\ pc = "done") =>
                        /\ r.status = 200
                        /\ Cardinality(r.rows) = Least(n, Cardinality(Selected(r.endpoint)))
      ]_vars
C11_Witness ==
    /\ response.endpoint = "get_high_fare_per_mile"
    /\ response.raw = IntLimit(LimitMin)
    /\ response.status = 200
    /\ Cardinality(response.rows) = 1
    /\ Cardinality(HighFareRows) = 2

\* the place of a position of main() in the order of its stages
StageRank(p) ==
    CASE p = "create_schema" -> 1
      [] p = "load_dimensions" -> 2
      [] p \in {"load_trip_data", "load_batch"} -> 3
      [] p = "create_indexes" -> 4
      [] p = "create_materialized_views" -> 5
      [] p = "create_summary_statistics" -> 6
      [] p = "analyze_database" -> 7
      [] p = "print_statistics" -> 8
      [] p = "close" -> 9
      [] OTHER -> 10
\* main() has ended and is started again
Restarts == pc \in {"done", "failed"} /\ pc' = "create_schema"

\* C12: a run of main() goes through schema, dimensions, facts, indexes,
\* aggregates, summary in that order: a stage starts only from the normal
\* return of the stage before it, and a batch is inserted into the fact table
\* only after the four dimension tables were loaded and with the identifier
\* set read from the location dimension as it then is.
C12_StagesInOrder ==
    [][ /\ (pc' # pc /\ pc' # "failed" /\ ~Restarts) =>
                /\ StageRank(pc') = StageRank(pc) + 1 \/ (StageRank(pc') = 3 /\ StageRank(pc) = 3)
                /\ fatal' = "none"
        /\ fact_trip' # fact_trip =>
                /\ pc = "load_batch"
                /\ dim_vendor # {} /\ dim_payment_type # {} /\ dim_rate_code # {}
                /\ manhattan_zone_ids # {}
                /\ manhattan_zone_ids
                      = {d.location_id : d \in {z \in dim_location : z.borough = "Manhattan"}}
      ]_vars
C12_Witness ==
    /\ pc = "create_summary_statistics"
    /\ fact_trip # {}
    /\ \A n \in MvNames : mv[n].exists

\* C13: when a stage of main() raises, the run halts there as failed (exit
\* status 1): no later stage runs and the store is touched again only by a
\* new invocation; and a run ends as completed only from the normal return of
\* close, with no error raised.
C13_FatalHalts ==
    [][ /\ fatal' # "none" => pc' = "failed"
        /\ (pc' = "failed" /\ pc # "failed") => fatal' = pc \/ (pc = "load_batch" /\ fatal' = "load_trip_data")
        /\ (pc = "failed" /\ pc' # pc) => (Restarts /\ UNCHANGED store)
        /\ (pc' = "done" /\ pc # "done") => (pc = "close" /\ fatal = "none" /\ fatal' = "none")
      ]_vars
C13_Witness ==
    /\ pc = "failed"
    /\ fatal = "create_summary_statistics"
    /\ \A n \in MvNames : mv[n].exists

\* C14: when a stage of main() raises, the tables written by the stages that
\* returned before it are, at the halt, as they were: the dimensions once the
\* dimension loader has returned, the fact rows of the batches inserted, the
\* indexes, the aggregates, the summary; and nothing of the store changes
\* after the halt.
C14_PartialStateKept ==
    [][ /\ (pc' = "failed" /\ pc # "failed") =>
                /\ StageRank(pc) > 1 => schema' = schema
                /\ StageRank(pc) > 2 =>
                      UNCHANGED <<dim_location, dim_vendor, dim_payment_type, dim_rate_code>>
                /\ StageRank(pc) > 2 => fact_trip' = fact_trip
                /\ StageRank(pc) > 4 => indexes' = indexes
                /\ StageRank(pc) > 5 => mv' = mv
                /\ StageRank(pc) > 6 => summary_statistics' = summary_statistics
        /\ pc = "failed" => UNCHANGED store
      ]_vars
C14_Witness ==
    /\ pc = "failed"
    /\ StageRank(fatal) = 6
    /\ dim_location # {}
    /\ indexes = IndexNames
    /\ mv["mv_zone_pickup"].exists

\* C15: whichever CREATE INDEX statements fail, create_indexes tries all
\* seven indexes of its list, in order, creates those that did not fail,
\* returns without an error, and main() goes on to the aggregate builder.
C15_IndexFailureIsolated ==
    [][ (pc = "create_indexes" /\ pc' # pc) =>
            /\ Len(index_log') = 7
            /\ \A j \in 1..7 : index_log'[j].name = IndexList[j]
            /\ \A j \in DOMAIN index_log' : index_log'[j].created => index_log'[j].name \in indexes'
            /\ fatal' = "none"
            /\ pc' = "create_materialized_views"
      ]_vars
C15_Witness ==
    /\ Len(index_log) = 7
    /\ ~index_log[1].created
    /\ index_log[2].created /\ "idx_pu_location" \in indexes
    /\ builds = 1
    /\ pc = "create_summary_statistics"

\* C16: with no schema file, create_schema on a store whose dimension tables
\* and fact table exist returns without an error and leaves those tables,
\* with every row, and the rest of the store as they are.
C16_SchemaIdempotent ==
    [][ (pc = "create_schema" /\ pc' # pc /\ schema) =>
            /\ UNCHANGED store
            /\ fatal' = "none"
            /\ pc' = "load_dimensions"
      ]_vars
C16_Witness ==
    /\ pc = "load_dimensions"
    /\ schema
    /\ fact_trip # {} /\ dim_location # {}

\* C17: an invocation of main() on a store that an earlier invocation has
\* populated goes through the dimension loader to the fact loader, and at the
\* end of its fact loader the fact table holds the accepted rows of its own
\* batches and no other row.
C17_FactsRebuilt ==
    [][ /\ (pc = "load_dimensions" /\ fact_trip # {}) => pc' = "load_trip_data"
        /\ LoaderEnds => Cardinality(fact_trip') = SumAccepted(Len(parquet_files))
      ]_vars

\* C18: when load_dimensions returns, dim_location holds exactly the rows of
\* the zone lookup whose location_id, borough and zone are all there, each
\* with service_zone "Unknown" where the lookup had none and as in the lookup
\* otherwise; and at no time has a row of dim_location a missing borough,
\* zone or service_zone.
C18_LocationRowsComplete ==
    [][ /\ (pc = "load_dimensions" /\ pc' = "load_trip_data") =>
            \E zf \in zone_dir :
                /\ zf.present
                /\ dim_location' =
                      { [z EXCEPT !.service_zone = IF @ = Null THEN "Unknown" ELSE @]
                          : z \in {r \in Range(zf.rows) :
                                      r.location_id # NullId /\ r.borough # Null /\ r.zone # Null} }
        /\ \A d \in dim_location' :
                d.location_id # NullId /\ d.borough # Null /\ d.zone # Null /\ d.service_zone # Null
      ]_vars
C18_Witness ==
    /\ pc = "load_trip_data"
    /\ \E d \in dim_location : d.location_id = 12 /\ d.service_zone = "Unknown"
    /\ \E d \in dim_location : d.location_id = 4 /\ d.service_zone = "Yellow Zone"
    /\ {d.location_id : d \in dim_location} = {1, 4, 7, 12}

\* the sum of pickup_count over a set of rows of mv_zone_pickup
RECURSIVE PickupTotal(_)
PickupTotal(R) ==
    IF R = {} THEN 0
    ELSE LET r == CHOOSE x \in R : TRUE IN r.pickup_count + PickupTotal(R \ {r})

\* C19: when main() has run to the end on a store that held no rows,
\* mv_zone_pickup has exactly one row for each distinct pu_location_id of
\* fact_trip and no other row, and its pickup_count values add up to the row
\* count of fact_trip.
C19_ZonePickupCoversFacts ==
    (driver = "main" /\ pc = "done" /\ loads = 1 /\ builds = 1) =>
        LET rows == BagToSet(mv["mv_zone_pickup"].rows)
        IN  /\ mv["mv_zone_pickup"].exists
            /\ {r.location_id : r \in rows} = {t.pu_location_id : t \in fact_trip}
            /\ \A r \in rows : CopiesIn(r, mv["mv_zone_pickup"].rows) = 1
            /\ \A r, q \in rows : r.location_id = q.location_id => r = q
            /\ PickupTotal(rows) = Cardinality(fact_trip)

\* the fact rows whose fare per mile, as the engine computes the quotient of
\* the two stored columns, is above 50 and whose fare is below 1000
SteepTrips ==
    {t \in fact_trip :
        /\ t.trip_distance > 0
        /\ FarePerMile(t) > FarePerMileMin * FixOne
        /\ t.fare_amount < HighFareCap * FixOne}
\* a request is answered by the handler e
Answered(e) ==
    /\ UNCHANGED <<env, pc, fatal, store, locals, loads, builds, index_log>>
    /\ response'.endpoint = e

\* C20: when get_high_fare_per_mile answers 200 with a limit that is not
\* below the number of fact rows with fare_amount / trip_distance > 50 and
\* fare_amount < 1000, the trips it returns are exactly those fact rows, one
\* result row each: neither trip_distance < 100 nor the two joins with
\* dim_location leaves one of them out; and the high_fare_per_mile count of
\* get_anomaly_summary, when it answers 200, is the number of the same rows.
C20_HighFareListing ==
    [][ /\ ( /\ Answered("get_high_fare_per_mile")
             /\ response'.status = 200
             /\ response'.limit >= Cardinality(SteepTrips) ) =>
                /\ {r.key[1] : r \in response'.rows} = {t.trip_id : t \in SteepTrips}
                /\ Cardinality(response'.rows) = Cardinality(SteepTrips)
                /\ \A t \in SteepTrips :
                        /\ t.trip_distance < HighFareDistanceCap * FixOne
                        /\ \E p, d \in dim_location :
                                p.location_id = t.pu_location_id /\ d.location_id = t.do_location_id
        /\ (Answered("get_anomaly_summary") /\ response'.status = 200) =>
                response'.counts.high_fare_per_mile = Cardinality(SteepTrips)
      ]_vars
C20_Witness ==
    /\ pc = "done"
    /\ response.endpoint = "get_high_fare_per_mile"
    /\ response.status = 200
    /\ response.limit = LimitMax
    /\ Cardinality(response.rows) = 2
    /\ \E t \in fact_trip :
            /\ t.fare_amount = ExpensiveFare * FixOne
            /\ t.trip_distance = FixOne
            /\ \A r \in response.rows : r.key[1] # t.trip_id

\* one pass of the loop of load_trip_data has been made
BatchDone == pc = "load_batch" /\ Len(batch_log') = Len(batch_log) + 1

\* C21: a batch whose INSERT went through is reported as processed, with a
\* loaded count and a filtered count that add up to the row count of the
\* file, and both counts are added to the running totals; a file with no
\* rows is such a batch.
C21_BatchReported ==
    [][ (BatchDone /\ Inserted(batch_log'[Len(batch_log')])) =>
            LET e == batch_log'[Len(batch_log')]
            IN  /\ e.status = "ok"
                /\ e.added + e.filtered = Len(parquet_files[i].rows)
                /\ total_trips_loaded' = total_trips_loaded + e.added
                /\ total_trips_filtered' = total_trips_filtered + e.filtered
      ]_vars

\* a request to the query API has been answered: no step of the pipeline
\* leaves both pc and the locals of the loader as they are
ApiStep == UNCHANGED <<pc, fatal, locals, loads, builds, index_log>>

\* C22: no request to the query API, whichever the endpoint and whatever its
\* answer, changes the schema, a dimension table, the fact table, an index,
\* an aggregate table or the summary table; a handler that reaches its query
\* has opened a connection of its own, and root() opens none.
C22_ApiReadOnly ==
    [][ ApiStep =>
            /\ UNCHANGED store
            /\ response'.endpoint \in LimitEndpoints \cup PlainEndpoints \cup {"get_anomaly_summary", "root"}
            /\ (response'.status = 200 /\ response'.endpoint # "root") => response'.connected
      ]_vars
C22_Witness ==
    /\ pc = "done"
    /\ fact_trip # {}
    /\ response.endpoint = "get_statistics"
    /\ response.status = 200
    /\ response.connected

\* C23: a handler given an integer limit outside 1..1000 answers 400 without
\* having opened a connection, whether or not the store can be opened at that
\* moment; given a limit inside the range, or none, it answers 500 when the
\* connection cannot be opened.
C23_RejectedBeforeConnect ==
    [][ LimitHandled =>
            LET r == response'
                outside == r.raw.kind = "int" /\ ~(1 <= r.raw.value /\ r.raw.value <= 1000)
                inside == r.raw.kind = "absent"
                          \/ (r.raw.kind = "int" /\ 1 <= r.raw.value /\ r.raw.value <= 1000)
            IN  /\ outside => (r.status = 400 /\ ~r.connected /\ r.rows = {})
                /\ (inside /\ pc \notin {"done", "failed"}) => (r.status = 500 /\ ~r.connected)
      ]_vars
C23_Witness ==
    /\ loads = 0
    /\ pc = "load_dimensions"
    /\ response.endpoint = "get_top_pickup_zones"
    /\ response.raw = IntLimit(1001)
    /\ response.status = 400

\* C24: during the first load_trip_data on a store, every trip_id given to a
\* row of a batch is greater than every trip_id given before it, after each
\* batch the identifiers in fact_trip are exactly 1..(row count), and when
\* the loop ends they are 1..N with N the number of accepted rows of the
\* batches that were inserted.
C24_TripIdsMonotone ==
    [][ (pc = "load_batch" /\ loads = 1) =>
            /\ \A new \in fact_trip' \ fact_trip : \A old \in fact_trip :
                    new.trip_id > old.trip_id
            /\ {t.trip_id : t \in fact_trip'} = 1..Cardinality(fact_trip')
            /\ LoaderEnds =>
                    {t.trip_id : t \in fact_trip'} = 1..SumAccepted(Len(parquet_files))
      ]_vars
C24_Witness ==
    /\ loads = 1
    /\ pc = "load_batch"
    /\ Len(batch_log) = 2
    /\ batch_log[1].added >= 2
    /\ batch_log[2].added >= 2
    /\ {t.trip_id : t \in fact_trip} = 1..(batch_log[1].added + batch_log[2].added)

\* C25: the trip_id of a row is fixed by the place of the row in its batch:
\* in a load on a fresh store, a batch that adds rows gives the j-th accepted
\* row of the file, in the order of the file, the identifier
\* total_trips_loaded + j, so that two runs over the same files give the same
\* row the same identifier.
C25_TripIdsStable ==
    [][ (pc = "load_batch" /\ loads = 1 /\ fact_trip' # fact_trip) =>
            LET acc == AcceptedRows(parquet_files[i].rows, manhattan_zone_ids)
            IN  fact_trip' \ fact_trip
                    = {FactRow(acc[j], total_trips_loaded + j) : j \in 1..Len(acc)}
      ]_vars

\* C26: for every row of fact_trip, pickup_date is the day pickup_datetime
\* falls in, pickup_hour is the hour of that day it falls in and is in 0..23,
\* pickup_day_of_week is in 0..6 and is the weekday of pickup_date counted
\* from Sunday = 0 (2025-01-01, day 0, is a Wednesday), is_weekend is true
\* exactly for 0 and 6, and trip_duration_seconds is the whole number of
\* seconds nearest to dropoff_datetime - pickup_datetime, which is that
\* difference itself when the difference is a whole number of seconds.
C26_DerivedFieldsAgree ==
    \A t \in fact_trip :
        LET day == t.pickup_date * 86400 * TicksPerSec
            hour == day + t.pickup_hour * 3600 * TicksPerSec
            diff == t.dropoff_datetime - t.pickup_datetime
            off == t.trip_duration_seconds * TicksPerSec - diff
        IN  /\ day <= t.pickup_datetime /\ t.pickup_datetime < day + 86400 * TicksPerSec
            /\ t.pickup_hour \in 0..23
            /\ hour <= t.pickup_datetime /\ t.pickup_datetime < hour + 3600 * TicksPerSec
            /\ t.pickup_day_of_week \in 0..6
            /\ (t.pickup_day_of_week + 4) % 7 = t.pickup_date % 7
            /\ t.is_weekend <=> t.pickup_day_of_week \in {0, 6}
            /\ 2 * off <= TicksPerSec /\ -2 * off <= TicksPerSec
            /\ diff % TicksPerSec = 0 => off = 0
C26_Witness ==
    /\ \E t \in fact_trip : t.is_weekend /\ t.pickup_day_of_week = 6 /\ t.pickup_hour = 23
    /\ \E t \in fact_trip : ~t.is_weekend /\ t.pickup_day_of_week = 3 /\ t.pickup_hour = 8

\* C27: no step removes or alters a row of fact_trip, so that its row count
\* never goes down and every row a batch inserted is still there, as it was,
\* after every later batch; and create_indexes, create_materialized_views
\* and create_summary_statistics leave fact_trip and the four dimension
\* tables as they are.
C27_FactsAppendOnly ==
    [][ /\ fact_trip \subseteq fact_trip'
        /\ Cardinality(fact_trip') >= Cardinality(fact_trip)
        /\ pc \in {"create_indexes", "create_materialized_views", "create_summary_statistics"} =>
                UNCHANGED <<fact_trip, dim_location, dim_vendor, dim_payment_type, dim_rate_code>>
      ]_vars
C27_Witness ==
    /\ pc = "done"
    /\ Cardinality(fact_trip) > OdMinTrips
    /\ indexes # {}
    /\ mv["mv_zone_pickup"].exists
    /\ summary_statistics.exists

\* the orders in which the six statements can be run
MvOrders ==
    {p \in [1..Cardinality(MvNames) -> MvNames] : \A j, k \in DOMAIN p : p[j] = p[k] => j = k}

\* C28: the six tables create_materialized_views leaves are the tables the
\* six statements leave when run in any other order over the same fact
\* table, and each of them is the table its statement builds by itself on the
\* store as it was, whichever of the others have been built.
C28_BuildsIndependent ==
    [][ (pc = "create_materialized_views" /\ builds' = builds + 1) =>
            /\ \A p \in MvOrders : BuildInOrder(p, mv, fact_trip) = mv'
            /\ \A n \in MvNames : \A B \in SUBSET (MvNames \ {n}) :
                    LET some == [m \in MvNames |-> IF m \in B THEN mv'[m] ELSE mv[m]]
                    IN  BuildOne(some, n, fact_trip)[n] = mv'[n]
      ]_vars
C28_Witness ==
    /\ builds = 1
    /\ pc = "create_summary_statistics"
    /\ Cardinality({t.pu_location_id : t \in fact_trip}) = 2
    /\ \A n \in MvNames \ {"mv_od_flows"} : mv[n].exists /\ BagToSet(mv[n].rows) # {}

\* C29: whatever fact_trip holds, nothing included, a call of
\* create_summary_statistics on a store with the schema returns without
\* raising and leaves summary_statistics with exactly one row, whose
\* total_trips is the row count of fact_trip.
C29_SummaryAlwaysBuilt ==
    [][ (pc = "create_summary_statistics" /\ schema) =>
            /\ fatal' = "none"
            /\ pc' # "failed"
            /\ summary_statistics'.exists
            /\ BagCardinality(summary_statistics'.rows) = 1
            /\ Stats(summary_statistics').total_trips = Cardinality(fact_trip')
      ]_vars

====
